---- MODULE Spec2Model ----
(***************************************************************************)
(* Model of the inscription transaction assembler (buildInscriptionPSBT),  *)
(* its input validators, the fee estimator and the UTXO selector           *)
(* (selectCoins), and of the flows that call the assembler, the UTXO       *)
(* sources, the signer and the broadcaster (buildInscriptionTransaction,   *)
(* signAndBroadcastInscription, handlePayAndSign).                         *)
(*                                                                         *)
(* Abstractions:                                                           *)
(*  - an address is its kind: "p2tr" (decodes to a 34-byte witness-v1      *)
(*    script), "p2pkh" (decodes, but is not taproot), "garbage" (does not  *)
(*    decode);                                                             *)
(*  - the inscription content is its byte count (the assembler reads only  *)
(*    content.length);                                                     *)
(*  - a fee rate is a rational [num, den] sats/vbyte, so that Math.ceil    *)
(*    is modelled on non-integer products (NaN and the infinities are not  *)
(*    modelled);                                                           *)
(*  - a UTXO is [txidOk, vout, value, hasWitness]: txidOk says whether     *)
(*    txid matches /^[0-9a-fA-F]{64}$/, hasWitness whether witnessUtxo is  *)
(*    present.                                                             *)
(***************************************************************************)
EXTENDS Integers, Sequences, FiniteSets, TLC

VARIABLES
    params,            \* InscriptionTxParams of the call of buildInscriptionPSBT
    pc,                \* position inside buildInscriptionPSBT
    inscriptionScript, \* <<result of createInscriptionEnvelope>>, <<>> before
    estimatedFee,      \* let estimatedFee
    selectedUtxos,     \* let selectedUtxos
    change,            \* let change
    totalInputValue,   \* let totalInputValue
    iterations,        \* let iterations
    selectorCalls,     \* number of calls of selectCoins made by the assembler
    psbt,              \* the bitcoin.Psbt under construction
    result,            \* <<the value the promise resolves to>>, <<>> before
    error,             \* the Error the promise rejects with, Undefined before
    call,              \* the latest direct call of a pure function, its outcome
    flow               \* the flow of transaction-builder.ts or of the payment
                       \* step that is running, NoFlow when there is none

vars == <<params, pc, inscriptionScript, estimatedFee, selectedUtxos, change,
          totalInputValue, iterations, selectorCalls, psbt, result, error, call,
          flow>>

Undefined == "undefined"

(***************************************************************************)
(* Bounds of the model                                                     *)
(***************************************************************************)
MaxUtxos == 2

\* at most this many of the five validated parameters are invalid in one call
MaxInvalid == 2

(***************************************************************************)
(* Program constants                                                       *)
(***************************************************************************)
dustLimit == 546
maxIterations == 5
maxSize == 400 * 1024

(***************************************************************************)
(* Arithmetic helpers                                                      *)
(***************************************************************************)
Max(a, b) == IF a >= b THEN a ELSE b

RECURSIVE SumValues(_)
SumValues(utxos) ==
    IF utxos = <<>> THEN 0 ELSE Head(utxos).value + SumValues(Tail(utxos))

(***************************************************************************)
(* validation.ts                                                           *)
(***************************************************************************)
Valid == [valid |-> TRUE, error |-> Undefined]
Invalid(msg) == [valid |-> FALSE, error |-> msg]

validateAddress(address) ==
    IF address = "garbage" THEN Invalid("Invalid Bitcoin address") ELSE Valid

validateTaprootAddress(address) ==
    IF ~validateAddress(address).valid THEN validateAddress(address)
    ELSE IF address # "p2tr"
         THEN Invalid("Address must be a taproot (P2TR) address")
         ELSE Valid

\* the upper bound is tested with >= in the place of >
validateFeeRateRejects1000(feeRate) ==
    IF feeRate.num <= 0 THEN Invalid("Fee rate must be greater than 0")
    ELSE IF feeRate.num >= 1000 * feeRate.den
         THEN Invalid("Fee rate seems unusually high (>1000 sats/vB). Please verify.")
         ELSE Valid

validateFeeRate(feeRate) ==
    IF feeRate.num <= 0 THEN Invalid("Fee rate must be greater than 0")
    ELSE IF feeRate.num > 1000 * feeRate.den
         THEN Invalid("Fee rate seems unusually high (>1000 sats/vB). Please verify.")
         ELSE Valid

validateInscriptionContent(contentLength) ==
    IF contentLength = 0 THEN Invalid("Inscription content cannot be empty")
    ELSE IF contentLength > maxSize THEN Invalid("Inscription content too large")
         ELSE Valid

validateUtxo(utxo) ==
    IF ~utxo.txidOk THEN Invalid("Invalid transaction ID format")
    ELSE IF utxo.vout < 0 THEN Invalid("Invalid output index")
         ELSE IF utxo.value <= 0 THEN Invalid("Invalid UTXO value")
              ELSE Valid

validatePublicKey(keyLength) ==
    IF keyLength # 32 /\ keyLength # 33 /\ keyLength # 65
    THEN Invalid("Invalid public key length")
    ELSE Valid

(***************************************************************************)
(* coin-selection.ts                                                       *)
(***************************************************************************)
\* Math.floor in the place of Math.ceil
Floor(n, d) == n \div d

\* Math.ceil(n / d) for n >= 0, d > 0
Ceil(n, d) == (n + d - 1) \div d

\* a witness input is counted with the 56 vbytes of estimateTxSize
estimateFeeForSelectionInput56(inputCount, outputCount, feeRate, hasWitness) ==
    LET vbytes == 10 + inputCount * (IF hasWitness THEN 56 ELSE 148)
                     + outputCount * 43
    IN  Ceil(vbytes * feeRate.num, feeRate.den)

\* hasWitness defaults to true: the assembler never passes it
estimateFeeForSelection(inputCount, outputCount, feeRate, hasWitness) ==
    LET vbytes == 10 + inputCount * (IF hasWitness THEN 57 ELSE 148)
                     + outputCount * 43
    IN  Ceil(vbytes * feeRate.num, feeRate.den)

\* the copy is not sorted
SortUtxosKeepsOrder(utxos, strategy) == utxos

\* 'optimal' falls into the ascending branch
compareUtxosOptimalAscending(a, b, strategy) ==
    IF strategy \in {"smallest-first", "optimal"} THEN a.value - b.value
    ELSE b.value - a.value

\* every strategy sorts by ascending value
compareUtxosAscending(a, b, strategy) == a.value - b.value

\* the comparator handed to Array.prototype.sort: negative when a goes first
compareUtxos(a, b, strategy) ==
    IF strategy = "smallest-first" THEN a.value - b.value
    ELSE b.value - a.value

\* Array.prototype.sort is stable: element i comes after the elements the
\* comparator puts before it and after the earlier elements it ties with
SortedPosition(utxos, i, strategy) ==
    1 + Cardinality({ j \in 1..Len(utxos) :
                        \/ compareUtxos(utxos[j], utxos[i], strategy) < 0
                        \/ /\ compareUtxos(utxos[j], utxos[i], strategy) = 0
                           /\ j < i })

\* [...utxos].sort(comparator)
SortUtxos(utxos, strategy) ==
    [k \in 1..Len(utxos) |->
        utxos[CHOOSE i \in 1..Len(utxos) :
                 SortedPosition(utxos, i, strategy) = k]]

\* the caller's array is sorted in place, without the copy
ArraysAfterSortInPlace(utxos, strategy) ==
    [utxos |-> SortUtxos(utxos, strategy),
     sortedUtxos |-> SortUtxos(utxos, strategy)]

\* lines 45-58: the spread makes a new array and sort reorders that array;
\* the caller's array and the sorted copy after the statement
ArraysAfterSort(utxos, strategy) ==
    [utxos |-> utxos, sortedUtxos |-> SortUtxos(utxos, strategy)]

\* the loop has no break: every UTXO is pushed
AccumulateAll(sorted, selected, totalValue, totalNeeded) ==
    [selected |-> selected \o sorted,
     totalValue |-> totalValue + SumValues(sorted)]

\* the for loop of selectCoins: push, add, break once the total is reached
RECURSIVE Accumulate(_, _, _, _)
Accumulate(sorted, selected, totalValue, totalNeeded) ==
    IF sorted = <<>> THEN [selected |-> selected, totalValue |-> totalValue]
    ELSE LET pushed == Append(selected, Head(sorted))
             total  == totalValue + Head(sorted).value
         IN  IF total >= totalNeeded
             THEN [selected |-> pushed, totalValue |-> total]
             ELSE Accumulate(Tail(sorted), pushed, total, totalNeeded)

\* throw new Error(...): the kind of the message and the amounts it carries
Thrown(kind, needed, have) ==
    [ok |-> FALSE, error |-> [kind |-> kind, needed |-> needed, have |-> have]]

\* a mis-ordered loop body: the break is taken before the push
selectCoinsBreakBeforePush(utxos, targetAmount, estimatedFeeArg, strategy) ==
    IF Len(utxos) = 0 THEN Thrown("No UTXOs available", 0, 0)
    ELSE LET totalNeeded == targetAmount + estimatedFeeArg
             acc == Accumulate(SortUtxos(utxos, strategy), <<>>, 0, totalNeeded)
         IN  IF acc.totalValue < totalNeeded
             THEN Thrown("Insufficient funds", totalNeeded, acc.totalValue)
             ELSE [ok |-> TRUE,
                   selected |-> SubSeq(acc.selected, 1, Len(acc.selected) - 1),
                   change |-> acc.totalValue - totalNeeded,
                   totalValue |-> acc.totalValue]

\* the check after the loop is missing
selectCoinsNoFundsCheck(utxos, targetAmount, estimatedFeeArg, strategy) ==
    IF Len(utxos) = 0 THEN Thrown("No UTXOs available", 0, 0)
    ELSE LET totalNeeded == targetAmount + estimatedFeeArg
             acc == Accumulate(SortUtxos(utxos, strategy), <<>>, 0, totalNeeded)
         IN  [ok |-> TRUE,
              selected |-> acc.selected,
              change |-> acc.totalValue - totalNeeded,
              totalValue |-> acc.totalValue]

\* the check for an empty list is missing
selectCoinsNoEmptyCheck(utxos, targetAmount, estimatedFeeArg, strategy) ==
    LET totalNeeded == targetAmount + estimatedFeeArg
        acc == Accumulate(SortUtxos(utxos, strategy), <<>>, 0, totalNeeded)
    IN  IF acc.totalValue < totalNeeded
        THEN Thrown("Insufficient funds", totalNeeded, acc.totalValue)
        ELSE [ok |-> TRUE,
              selected |-> acc.selected,
              change |-> acc.totalValue - totalNeeded,
              totalValue |-> acc.totalValue]

selectCoins(utxos, targetAmount, estimatedFeeArg, strategy) ==
    IF Len(utxos) = 0 THEN Thrown("No UTXOs available", 0, 0)
    ELSE LET totalNeeded == targetAmount + estimatedFeeArg
             acc == Accumulate(SortUtxos(utxos, strategy), <<>>, 0, totalNeeded)
         IN  IF acc.totalValue < totalNeeded
             THEN Thrown("Insufficient funds", totalNeeded, acc.totalValue)
             ELSE [ok |-> TRUE,
                   selected |-> acc.selected,
                   change |-> acc.totalValue - totalNeeded,
                   totalValue |-> acc.totalValue]

(***************************************************************************)
(* inscription-builder.ts: buildInscriptionPSBT                            *)
(***************************************************************************)
\* createInscriptionEnvelope: the content type, the one-byte length prefix
\* Buffer.from([content.length]), the number of content bytes that follow it,
\* the bytes themselves and the metadata entries
createInscriptionEnvelope(contentType, content, metadata) ==
    [contentType |-> contentType,
     lengthPrefix |-> content.length % 256,
     contentBytes |-> content.length,
     content |-> content.bytes,
     metadata |-> metadata]

\* params.inscriptionData.content: its length and its bytes
Content(p) == [length |-> p.contentLength, bytes |-> p.inscriptionData.content]

RECURSIVE FirstUtxoError(_)
FirstUtxoError(utxos) ==
    IF utxos = <<>> THEN Undefined
    ELSE IF ~validateUtxo(Head(utxos)).valid THEN validateUtxo(Head(utxos)).error
         ELSE FirstUtxoError(Tail(utxos))

\* the content validator is not consulted
ValidationErrorSkipsContent(p) ==
    IF ~validateTaprootAddress(p.recipientAddress).valid
    THEN validateTaprootAddress(p.recipientAddress).error
    ELSE IF ~validateFeeRate(p.feeRate).valid
    THEN validateFeeRate(p.feeRate).error
    ELSE IF ~validatePublicKey(p.paymentPublicKeyLength).valid
    THEN validatePublicKey(p.paymentPublicKeyLength).error
    ELSE FirstUtxoError(p.paymentUtxos)

\* lines 125-152: the message of the first validator that fails, in the
\* order the validators are consulted, or Undefined when all pass
ValidationError(p) ==
    IF ~validateTaprootAddress(p.recipientAddress).valid
    THEN validateTaprootAddress(p.recipientAddress).error
    ELSE IF ~validateFeeRate(p.feeRate).valid
    THEN validateFeeRate(p.feeRate).error
    ELSE IF ~validateInscriptionContent(p.contentLength).valid
    THEN validateInscriptionContent(p.contentLength).error
    ELSE IF ~validatePublicKey(p.paymentPublicKeyLength).valid
    THEN validatePublicKey(p.paymentPublicKeyLength).error
    ELSE FirstUtxoError(p.paymentUtxos)

\* params.minChangeThreshold || dustLimit (unset is <<>>, a number n is <<n>>)
minChangeThreshold(p) ==
    IF p.minChangeThreshold = <<>> \/ p.minChangeThreshold = <<0>>
    THEN dustLimit
    ELSE p.minChangeThreshold[1]

\* params.coinSelectionStrategy || "largest-first"
coinSelectionStrategy(p) ==
    IF p.coinSelectionStrategy = Undefined THEN "largest-first"
    ELSE p.coinSelectionStrategy

inscriptionOutputValueDustOnly(p) == dustLimit

\* the output value grows with the number of metadata entries
inscriptionOutputValueCountsMetadata(p) ==
    Max(dustLimit, p.contentLength + Len(p.inscriptionData.metadata))

\* Math.max(dustLimit, params.inscriptionData.content.length)
inscriptionOutputValue(p) == Max(dustLimit, p.contentLength)

OutputCountAlwaysTwo(selectionChange, threshold) == 2

\* the re-estimate counts one output more than the first guess
OutputCountOneMore(selectionChange, threshold) ==
    IF selectionChange > threshold THEN 3 ELSE 2

\* change > minChangeThreshold ? 2 : 1
OutputCount(selectionChange, threshold) ==
    IF selectionChange > threshold THEN 2 ELSE 1

\* the condition of the do ... while
LoopContinues(iter, total, needed) ==
    iter < maxIterations /\ total < needed

EmitsChangeAtThreshold(finalChange, threshold) == finalChange >= threshold

\* the change is always left to the fee
EmitsChangeNever(finalChange, threshold) == FALSE

\* if (change > minChangeThreshold)
EmitsChange(finalChange, threshold) == finalChange > threshold

\* the inputs are added again after the outputs
NextStepRebuilds(at) ==
    CASE at = "validate" -> "encode"
      [] at = "encode"   -> "loop"
      [] at = "loop"     -> "check"
      [] at = "check"    -> "inputs"
      [] at = "inputs"   -> "outputs"
      [] at = "outputs"  -> "loop"

\* the order of the blocks of buildInscriptionPSBT
NextStep(at) ==
    CASE at = "validate" -> "encode"
      [] at = "encode"   -> "loop"
      [] at = "loop"     -> "check"
      [] at = "check"    -> "inputs"
      [] at = "inputs"   -> "outputs"
      [] at = "outputs"  -> "done"

\* the stage of the assembler a position belongs to
StageOf(at) ==
    CASE at = "validate" -> "Validating"
      [] at = "encode"   -> "Encoding"
      [] at \in {"loop", "check"} -> "FeeConverging"
      [] at \in {"inputs", "outputs"} -> "Building"
      [] at = "done"     -> "Done"
      [] at = "failed"   -> "Failed"
      [] OTHER           -> "Idle"

\* the longest prefix of the selected UTXOs that all carry witnessUtxo
RECURSIVE WitnessPrefix(_)
WitnessPrefix(utxos) ==
    IF utxos = <<>> \/ ~Head(utxos).hasWitness THEN <<>>
    ELSE <<Head(utxos)>> \o WitnessPrefix(Tail(utxos))

HasWitness(utxo) == utxo.hasWitness

\* UTXOs without witnessUtxo are passed over instead of ending the call
addInputsSkipping(selected) ==
    [inputs |-> SelectSeq(selected, HasWitness), ok |-> TRUE]

\* every selected UTXO is added, with or without witnessUtxo
addInputsUnchecked(selected) == [inputs |-> selected, ok |-> TRUE]

\* the for loop of lines 234-249: the inputs added to the PSBT, and whether
\* the loop ran to its end without throwing
addInputs(selected) ==
    [inputs |-> WitnessPrefix(selected),
     ok |-> Len(WitnessPrefix(selected)) = Len(selected)]

NoPsbt == [created |-> FALSE, inputs |-> <<>>, outputs |-> <<>>]
NoCall == [fn |-> "none"]
NoFlow == [op |-> "none"]

\* the arguments of a call of selectCoins, the caller's array as it is now
\* and, once the call has ended, its outcome
SelectCoinsCall(utxos, targetAmount, estimatedFeeArg, strategy, out) ==
    [fn |-> "selectCoins", utxos |-> utxos, targetAmount |-> targetAmount,
     estimatedFee |-> estimatedFeeArg, strategy |-> strategy, out |-> out,
     callerUtxos |-> IF out = <<>> \/ Len(utxos) = 0
                     THEN utxos
                     ELSE ArraysAfterSort(utxos, strategy).utxos]

(***************************************************************************)
(* The inputs of the model                                                 *)
(***************************************************************************)
Rate(n, d) == [num |-> n, den |-> d]

RecipientAddresses == {"p2tr", "p2pkh", "garbage"}
ChangeAddresses == {"p2tr", "p2pkh", "garbage"}
FeeRates ==
    {Rate(0, 1), Rate(1, 1), Rate(3, 2), Rate(10, 1), Rate(500, 1),
     Rate(1000, 1), Rate(1001, 1)}
ContentLengths == {0, 5, 600, 500000}
KeyLengths == {31, 32}
Thresholds == {<<>>, <<0>>, <<100>>, <<1000>>}
Strategies == {Undefined, "largest-first", "smallest-first", "optimal"}

UtxoShape(txidOk, voutOk, value, hasWitness) ==
    [txidOk |-> txidOk, voutOk |-> voutOk, value |-> value,
     hasWitness |-> hasWitness]

UtxoShapes ==
    { UtxoShape(TRUE, TRUE, 1245, TRUE),
      UtxoShape(TRUE, TRUE, 1656, TRUE),
      UtxoShape(TRUE, TRUE, 100000, TRUE),
      UtxoShape(TRUE, TRUE, 100000, FALSE),
      UtxoShape(FALSE, TRUE, 1245, TRUE),
      UtxoShape(TRUE, FALSE, 1245, TRUE),
      UtxoShape(TRUE, TRUE, 0, TRUE) }

\* the UTXOs of a list are distinct outpoints: the i-th has output index i-1
MkUtxos(shapes) ==
    [i \in 1..Len(shapes) |->
        [txidOk |-> shapes[i].txidOk,
         vout |-> IF shapes[i].voutOk THEN i - 1 ELSE -1,
         value |-> shapes[i].value,
         hasWitness |-> shapes[i].hasWitness]]

UtxoLists ==
    { MkUtxos(s) : s \in UNION { [1..n -> UtxoShapes] : n \in 0..MaxUtxos } }

\* content type, content bytes and metadata of the inscription; the length
\* of the content is the parameter contentLength
DefaultData == [contentType |-> "text/plain", content |-> "a", metadata |-> <<>>]
InscriptionDatas ==
    [contentType : {"text/plain", "image/png"},
     content : {"a", "b"},
     metadata : {<<>>, <<[key |-> "name", value |-> "x"]>>}]

AllParams ==
    [recipientAddress : RecipientAddresses,
     feeRate : FeeRates,
     contentLength : ContentLengths,
     inscriptionData : {DefaultData},
     paymentPublicKeyLength : KeyLengths,
     paymentUtxos : UtxoLists,
     changeAddress : ChangeAddresses,
     coinSelectionStrategy : Strategies,
     minChangeThreshold : Thresholds]

Flag(b) == IF b THEN 1 ELSE 0

\* how many of the validators of lines 125-152 reject their parameter
InvalidCount(p) ==
    Flag(~validateTaprootAddress(p.recipientAddress).valid)
    + Flag(~validateFeeRate(p.feeRate).valid)
    + Flag(~validateInscriptionContent(p.contentLength).valid)
    + Flag(~validatePublicKey(p.paymentPublicKeyLength).valid)
    + Flag(\E i \in 1..Len(p.paymentUtxos) :
               ~validateUtxo(p.paymentUtxos[i]).valid)

ParamSpace == { p \in AllParams : InvalidCount(p) <= MaxInvalid }

(***************************************************************************)
(* The assembler as a state machine                                        *)
(***************************************************************************)
Init ==
    /\ params \in ParamSpace
    /\ pc = "validate"
    /\ inscriptionScript = <<>>
    /\ estimatedFee = 0
    /\ selectedUtxos = <<>>
    /\ change = 0
    /\ totalInputValue = 0
    /\ iterations = 0
    /\ selectorCalls = 0
    /\ psbt = NoPsbt
    /\ result = <<>>
    /\ error = Undefined
    /\ call = NoCall
    /\ flow = NoFlow

\* throw new Error(msg): the promise rejects, nothing else runs
Throw(msg) ==
    /\ pc' = "failed"
    /\ error' = msg

\* lines 125-152
Validate ==
    /\ pc = "validate"
    /\ IF ValidationError(params) # Undefined
       THEN Throw(ValidationError(params))
       ELSE pc' = NextStep("validate") /\ error' = error
    /\ UNCHANGED <<params, inscriptionScript, estimatedFee, selectedUtxos,
                   change, totalInputValue, iterations, selectorCalls, psbt,
                   result, call, flow>>

\* the first guess is made for a single input instead of all supplied UTXOs
EncodeGuessesOneInput ==
    /\ pc = "encode"
    /\ inscriptionScript' = <<createInscriptionEnvelope(
                                 params.inscriptionData.contentType,
                                 Content(params),
                                 params.inscriptionData.metadata)>>
    /\ IF Len(params.paymentUtxos) = 0
       THEN /\ Throw("No payment UTXOs provided")
            /\ UNCHANGED <<estimatedFee, iterations>>
       ELSE /\ estimatedFee' = estimateFeeForSelection(
                                   1, 2, params.feeRate,
                                   TRUE)
            /\ iterations' = 0
            /\ pc' = NextStep("encode")
            /\ error' = error
    /\ UNCHANGED <<params, selectedUtxos, change, totalInputValue,
                   selectorCalls, psbt, result, call, flow>>

\* lines 154-191
Encode ==
    /\ pc = "encode"
    /\ inscriptionScript' = <<createInscriptionEnvelope(
                                 params.inscriptionData.contentType,
                                 Content(params),
                                 params.inscriptionData.metadata)>>
    /\ IF Len(params.paymentUtxos) = 0
       THEN /\ Throw("No payment UTXOs provided")
            /\ UNCHANGED <<estimatedFee, iterations>>
       ELSE /\ estimatedFee' = estimateFeeForSelection(
                                   Len(params.paymentUtxos), 2, params.feeRate,
                                   TRUE)
            /\ iterations' = 0
            /\ pc' = NextStep("encode")
            /\ error' = error
    /\ UNCHANGED <<params, selectedUtxos, change, totalInputValue,
                   selectorCalls, psbt, result, call, flow>>

\* lines 193-217: one pass of the do ... while body and its condition
SelectAndReestimate ==
    /\ pc = "loop"
    /\ selectorCalls' = selectorCalls + 1
    /\ \E selection \in {selectCoins(params.paymentUtxos,
                                      inscriptionOutputValue(params),
                                      estimatedFee,
                                      coinSelectionStrategy(params))} :
        /\ call' = SelectCoinsCall(params.paymentUtxos,
                                   inscriptionOutputValue(params), estimatedFee,
                                   coinSelectionStrategy(params), <<selection>>)
        /\ IF ~selection.ok
           THEN /\ Throw(selection.error.kind)
                /\ UNCHANGED <<selectedUtxos, totalInputValue, change,
                               estimatedFee, iterations>>
           ELSE LET fee == estimateFeeForSelection(
                               Len(selection.selected),
                               OutputCount(selection.change,
                                           minChangeThreshold(params)),
                               params.feeRate, TRUE)
                IN  /\ selectedUtxos' = selection.selected
                    /\ totalInputValue' = selection.totalValue
                    /\ change' = selection.change
                    /\ estimatedFee' = fee
                    /\ iterations' = iterations + 1
                    /\ pc' = IF LoopContinues(iterations + 1,
                                              selection.totalValue,
                                              inscriptionOutputValue(params) + fee)
                             THEN "loop"
                             ELSE NextStep("loop")
                    /\ error' = error
    /\ params' = [params EXCEPT !.paymentUtxos = call'.callerUtxos]
    /\ UNCHANGED <<inscriptionScript, psbt, result, flow>>

\* the final fee is taken from the selection's change, which already has
\* the first guess subtracted
FinalCheckSubtractsFeeTwice ==
    /\ pc = "check"
    /\ LET totalNeeded == inscriptionOutputValue(params) + estimatedFee
       IN  IF totalInputValue < totalNeeded
           THEN /\ Throw("Insufficient funds.")
                /\ UNCHANGED <<change, psbt>>
           ELSE /\ change' = change - estimatedFee
                /\ psbt' = [created |-> TRUE, inputs |-> <<>>, outputs |-> <<>>]
                /\ pc' = NextStep("check")
                /\ error' = error
    /\ UNCHANGED <<params, inscriptionScript, estimatedFee, selectedUtxos,
                   totalInputValue, iterations, selectorCalls, result, call,
                   flow>>

\* lines 219-231
FinalCheck ==
    /\ pc = "check"
    /\ LET totalNeeded == inscriptionOutputValue(params) + estimatedFee
       IN  IF totalInputValue < totalNeeded
           THEN /\ Throw("Insufficient funds.")
                /\ UNCHANGED <<change, psbt>>
           ELSE /\ change' = totalInputValue - inscriptionOutputValue(params)
                                - estimatedFee
                /\ psbt' = [created |-> TRUE, inputs |-> <<>>, outputs |-> <<>>]
                /\ pc' = NextStep("check")
                /\ error' = error
    /\ UNCHANGED <<params, inscriptionScript, estimatedFee, selectedUtxos,
                   totalInputValue, iterations, selectorCalls, result, call,
                   flow>>

\* lines 233-249
AddInputs ==
    /\ pc = "inputs"
    /\ psbt' = [psbt EXCEPT !.inputs = addInputs(selectedUtxos).inputs]
    /\ IF ~addInputs(selectedUtxos).ok
       THEN Throw("Non-witness UTXOs require full transaction data")
       ELSE pc' = NextStep("inputs") /\ error' = error
    /\ UNCHANGED <<params, inscriptionScript, estimatedFee, selectedUtxos,
                   change, totalInputValue, iterations, selectorCalls, result,
                   call, flow>>

\* lines 251-274; psbt.addOutput throws for an address that does not decode
AddOutputs ==
    /\ pc = "outputs"
    /\ LET inscriptionOutput == [address |-> params.recipientAddress,
                                 value |-> inscriptionOutputValue(params)]
           changeOutput == [address |-> params.changeAddress, value |-> change]
       IN  IF EmitsChange(change, minChangeThreshold(params))
           THEN IF ~validateAddress(params.changeAddress).valid
                THEN /\ psbt' = [psbt EXCEPT !.outputs = <<inscriptionOutput>>]
                     /\ Throw("addOutput: invalid address")
                     /\ result' = result
                ELSE /\ psbt' = [psbt EXCEPT !.outputs =
                                     <<inscriptionOutput, changeOutput>>]
                     /\ result' = <<psbt'>>
                     /\ pc' = NextStep("outputs")
                     /\ error' = error
           ELSE IF change < 0
                THEN /\ psbt' = [psbt EXCEPT !.outputs = <<inscriptionOutput>>]
                     /\ Throw("Insufficient funds after fee calculation")
                     /\ result' = result
                ELSE /\ psbt' = [psbt EXCEPT !.outputs = <<inscriptionOutput>>]
                     /\ result' = <<psbt'>>
                     /\ pc' = NextStep("outputs")
                     /\ error' = error
    /\ UNCHANGED <<params, inscriptionScript, estimatedFee, selectedUtxos,
                   change, totalInputValue, iterations, selectorCalls, call,
                   flow>>

Next ==
    \/ Validate
    \/ Encode
    \/ SelectAndReestimate
    \/ FinalCheck
    \/ AddInputs
    \/ AddOutputs

Spec == Init /\ [][Next]_vars

\* The calls the fair specification starts from: those with at most one
\* invalid parameter (a call with several takes the same single step to
\* Failed as a call with one).
FairInit ==
    /\ Init
    /\ InvalidCount(params) <= 1

\* The call runs to its end once started: buildInscriptionPSBT has no
\* suspension point (no await) between its steps.
FairSpec == FairInit /\ [][Next]_vars /\ WF_vars(Next)

(***************************************************************************)
(* buildInscriptionPSBT called twice, the second time with the same        *)
(* parameters except for the content bytes, the content type and the       *)
(* metadata                                                                *)
(***************************************************************************)
TwoCallsParams ==
    { p \in ParamSpace :
        /\ p.recipientAddress = "p2tr"
        /\ p.paymentPublicKeyLength = 32
        /\ p.feeRate \in {Rate(1, 1), Rate(500, 1)}
        /\ p.minChangeThreshold \in {<<>>, <<1000>>} }

InitTwoCalls ==
    /\ Init
    /\ params \in TwoCallsParams

\* the first call has ended: its outcome is kept and the second call starts
SecondCall ==
    /\ flow = NoFlow
    /\ pc \in {"done", "failed"}
    /\ flow' = [op |-> "secondCall",
                first |-> [params |-> params, pc |-> pc,
                           inscriptionScript |-> inscriptionScript,
                           estimatedFee |-> estimatedFee, psbt |-> psbt,
                           result |-> result, error |-> error]]
    /\ \E data \in InscriptionDatas \ {params.inscriptionData} :
          params' = [params EXCEPT !.inscriptionData = data]
    /\ pc' = "validate"
    /\ inscriptionScript' = <<>>
    /\ estimatedFee' = 0
    /\ selectedUtxos' = <<>>
    /\ change' = 0
    /\ totalInputValue' = 0
    /\ iterations' = 0
    /\ selectorCalls' = 0
    /\ psbt' = NoPsbt
    /\ result' = <<>>
    /\ error' = Undefined
    /\ call' = NoCall

NextTwoCalls ==
    \/ Next
    \/ SecondCall

SpecTwoCalls == InitTwoCalls /\ [][NextTwoCalls]_vars

(***************************************************************************)
(* selectCoins called directly                                             *)
(***************************************************************************)
MaxSelUtxos == 3

SelValues == {500, 1000, 2000}
SelTargets == {546, 2000}
SelFees == {0, 153, 500}
SelStrategies == {"largest-first", "smallest-first", "optimal"}

SelUtxoLists ==
    { MkUtxos(s) :
        s \in UNION { [1..n -> { UtxoShape(TRUE, TRUE, v, TRUE) : v \in SelValues }]
                        : n \in 0..MaxSelUtxos } }

IdleParams ==
    [recipientAddress |-> "p2tr", feeRate |-> Rate(1, 1), contentLength |-> 5,
     inscriptionData |-> DefaultData,
     paymentPublicKeyLength |-> 32, paymentUtxos |-> <<>>,
     changeAddress |-> "p2tr", coinSelectionStrategy |-> Undefined,
     minChangeThreshold |-> <<>>]

InitSelect ==
    /\ params = IdleParams
    /\ pc = "idle"
    /\ inscriptionScript = <<>>
    /\ estimatedFee = 0
    /\ selectedUtxos = <<>>
    /\ change = 0
    /\ totalInputValue = 0
    /\ iterations = 0
    /\ selectorCalls = 0
    /\ psbt = NoPsbt
    /\ result = <<>>
    /\ error = Undefined
    /\ flow = NoFlow
    /\ \E utxos \in SelUtxoLists, targetAmount \in SelTargets,
          fee \in SelFees, strategy \in SelStrategies :
          call = SelectCoinsCall(utxos, targetAmount, fee, strategy, <<>>)

CallSelectCoins ==
    /\ call.fn = "selectCoins"
    /\ call.out = <<>>
    /\ call' = SelectCoinsCall(call.utxos, call.targetAmount,
                               call.estimatedFee, call.strategy,
                               <<selectCoins(call.utxos, call.targetAmount,
                                             call.estimatedFee,
                                             call.strategy)>>)
    /\ UNCHANGED <<params, pc, inscriptionScript, estimatedFee, selectedUtxos,
                   change, totalInputValue, iterations, selectorCalls, psbt,
                   result, error, flow>>

NextSelect == CallSelectCoins

SpecSelect == InitSelect /\ [][NextSelect]_vars

(***************************************************************************)
(* Both entry points: buildInscriptionPSBT is called, or selectCoins is    *)
(* called directly                                                         *)
(***************************************************************************)
InitCalls == Init \/ InitSelect

NextCalls == Next \/ NextSelect

SpecCalls == InitCalls /\ [][NextCalls]_vars

(***************************************************************************)
(* estimateFeeForSelection called directly, twice with the same counts and *)
(* witness flag and with two fee rates                                     *)
(***************************************************************************)
MaxCount == 3
MaxRateNum == 6

RateDenominators == {1, 2, 4}
CallRates == { Rate(n, d) : n \in 1..MaxRateNum, d \in RateDenominators }

\* buildInscriptionPSBT is not running
AssemblerIdle ==
    /\ params = IdleParams
    /\ pc = "idle"
    /\ inscriptionScript = <<>>
    /\ estimatedFee = 0
    /\ selectedUtxos = <<>>
    /\ change = 0
    /\ totalInputValue = 0
    /\ iterations = 0
    /\ selectorCalls = 0
    /\ psbt = NoPsbt
    /\ result = <<>>
    /\ error = Undefined

EstimateFeeCall(inputCount, outputCount, feeRates, hasWitness, out) ==
    [fn |-> "estimateFeeForSelection", inputCount |-> inputCount,
     outputCount |-> outputCount, feeRates |-> feeRates,
     hasWitness |-> hasWitness, out |-> out]

InitFee ==
    /\ AssemblerIdle
    /\ flow = NoFlow
    /\ \E inputCount \in 0..MaxCount, outputCount \in 0..MaxCount,
          r1 \in CallRates, r2 \in CallRates, hasWitness \in BOOLEAN :
          call = EstimateFeeCall(inputCount, outputCount, <<r1, r2>>,
                                 hasWitness, <<>>)

CallEstimateFee ==
    /\ call.fn = "estimateFeeForSelection"
    /\ call.out = <<>>
    /\ call' = [call EXCEPT !.out =
                   [k \in 1..2 |->
                       estimateFeeForSelection(call.inputCount, call.outputCount,
                                               call.feeRates[k],
                                               call.hasWitness)]]
    /\ UNCHANGED <<params, pc, inscriptionScript, estimatedFee, selectedUtxos,
                   change, totalInputValue, iterations, selectorCalls, psbt,
                   result, error, flow>>

NextFee == CallEstimateFee

SpecFee == InitFee /\ [][NextFee]_vars

(***************************************************************************)
(* transaction-builder.ts (buildInscriptionTransaction,                    *)
(* getUtxosForPayment, signAndBroadcastInscription) and the payment step   *)
(* (handlePayAndSign): the flows around the assembler and their external   *)
(* collaborators.  An awaited call takes two steps: it is issued (its      *)
(* entry in flow.calls is "pending"), and it settles with an outcome the   *)
(* collaborator chooses.                                                   *)
(***************************************************************************)
MaxFlowUtxos == 1

\* what the collaborators fail with
DataSourceErrors == {"DataSourceManager: request timed out"}
FetchErrors == {"fetch: network error", "Failed to fetch UTXOs: Bad Gateway"}
SignerErrors == {"signPsbt: user rejected the request"}
CreatePsbtErrors == {"createSpecialSatsPsbt: order not found"}
BroadcastErrors ==
    {"Mempool.space API error: bad-txns-inputs-missingorspent",
     "Invalid response from mempool.space"}

\* what the UTXO sources return: the mapping of lines 137-148 leaves
\* witnessUtxo undefined when the source has none and puts 0 for a missing
\* value; the mapping of lines 168-177 always sets witnessUtxo
DataSourceShapes ==
    { UtxoShape(TRUE, TRUE, 100000, TRUE),
      UtxoShape(TRUE, TRUE, 100000, FALSE),
      UtxoShape(TRUE, TRUE, 0, TRUE) }
MempoolShapes ==
    { UtxoShape(TRUE, TRUE, 100000, TRUE),
      UtxoShape(TRUE, TRUE, 1245, TRUE) }

DataSourceUtxoLists ==
    { MkUtxos(s) :
        s \in UNION { [1..n -> DataSourceShapes] : n \in 0..MaxFlowUtxos } }
MempoolUtxoLists ==
    { MkUtxos(s) :
        s \in UNION { [1..n -> MempoolShapes] : n \in 0..MaxFlowUtxos } }

\* a PSBT or a transaction in serialized form: who produced it, what it is,
\* and whether the string is longer than 100 characters and without "="
Document(by, kind, looksHex) == [by |-> by, kind |-> kind, looksHex |-> looksHex]

UnsignedPsbt == Document("builder", "unsigned psbt", FALSE)

\* what signPsbt resolves with
SignerResults ==
    { Document("signer", "finalizable psbt", h) : h \in BOOLEAN }
    \cup { Document("signer", "unfinalizable psbt", h) : h \in BOOLEAN }
    \cup { Document("signer", "transaction hex", TRUE),
           Document("signer", "other string", FALSE),
           Document("signer", "not a string", FALSE) }

FinalTransaction(signedResult) ==
    Document(signedResult.by, "final transaction", TRUE)

\* lines 200-218 of signAndBroadcastInscription: Psbt.fromBase64,
\* finalizeAllInputs and extractTransaction, then Transaction.fromHex
finalTxOf(signedResult) ==
    IF signedResult.kind = "not a string"
    THEN [ok |-> FALSE, error |-> "Unexpected signed transaction format"]
    ELSE IF signedResult.kind \in {"finalizable psbt", "transaction hex"}
         THEN [ok |-> TRUE, tx |-> FinalTransaction(signedResult)]
         ELSE [ok |-> FALSE, error |-> "Invalid signed transaction format"]

\* lines 126-146 of handlePayAndSign: the signer's string is taken as the
\* raw transaction when it is long and has no "=", and refused otherwise
rawTxHexOf(signedResult) ==
    IF signedResult.kind = "not a string"
    THEN [ok |-> FALSE,
          error |-> "Unexpected signed PSBT format from LaserEyes"]
    ELSE IF signedResult.looksHex
         THEN [ok |-> TRUE, tx |-> signedResult]
         ELSE [ok |-> FALSE, error |-> "PSBT finalization required"]

\* the PSBT handed to the signer is submitted as it is
BroadcastPayloadUnsigned(f) == UnsignedPsbt

\* finalTx.toHex() at line 221, rawTxHex at line 151 of the payment step
BroadcastPayload(f) == f.finalTx[1]

BuildOp == "buildInscriptionTransaction"
SignOp == "signAndBroadcastInscription"
PayOp == "handlePayAndSign"

StartFlow(op, at, args) ==
    [op |-> op, at |-> at, args |-> args, calls |-> <<>>, logged |-> <<>>,
     utxos |-> <<>>, finalTx |-> <<>>, error |-> <<>>, result |-> <<>>]

BuildArgs ==
    [recipientAddress : {"p2tr", "p2pkh"},
     paymentAddress : {"p2tr", "garbage"},
     changeAddress : {"p2tr", "p2pkh"},
     feeRate : {Rate(0, 1), Rate(10, 1)},
     contentLength : {5},
     paymentPublicKeyLength : {32},
     hasDataSource : BOOLEAN]

SignArgs == [psbt : {UnsignedPsbt}]

PayArgs ==
    [walletConnected : BOOLEAN, hasPublicKeys : BOOLEAN,
     hasFundingInfo : BOOLEAN]

FlowStarts ==
    { StartFlow(BuildOp, "validate", a) : a \in BuildArgs }
    \cup { StartFlow(SignOp, "sign", a) : a \in SignArgs }
    \cup { StartFlow(PayOp, "guards", a) : a \in PayArgs }

InitFlow ==
    /\ AssemblerIdle
    /\ call = NoCall
    /\ flow \in FlowStarts

\* a call of a collaborator that has been issued and not settled
ExternalCall(to, payload) ==
    [to |-> to, payload |-> payload, outcome |-> "pending", error |-> "none"]

LastCall == flow.calls[Len(flow.calls)]

Pending == flow.calls # <<>> /\ LastCall.outcome = "pending"

\* await: the call is issued and the flow waits at position at
Issue(f, to, payload, at) ==
    [f EXCEPT !.calls = Append(@, ExternalCall(to, payload)), !.at = at]

\* the pending call settles
Settle(f, outcome, err) ==
    [f EXCEPT !.calls[Len(f.calls)].outcome = outcome,
              !.calls[Len(f.calls)].error = err]

\* the flow ends with an Error of this message; cause is the collaborator's
\* error the message carries, "none" when it carries none
FlowThrow(f, message, cause) ==
    [f EXCEPT !.at = "failed",
              !.error = <<[message |-> message, cause |-> cause]>>]

\* console.error(..., err)
ConsoleError(f, err) == [f EXCEPT !.logged = Append(@, err)]

AssemblerUnchanged ==
    UNCHANGED <<params, pc, inscriptionScript, estimatedFee, selectedUtxos,
                change, totalInputValue, iterations, selectorCalls, psbt,
                result, error, call>>

\* lines 37-65 of buildInscriptionTransaction
BuildValidate ==
    /\ flow.op = BuildOp
    /\ flow.at = "validate"
    /\ flow' =
         IF ~validateTaprootAddress(flow.args.recipientAddress).valid
         THEN FlowThrow(flow,
                        validateTaprootAddress(flow.args.recipientAddress).error,
                        "none")
         ELSE IF ~validateTaprootAddress(flow.args.paymentAddress).valid
         THEN FlowThrow(flow, "Invalid payment address", "none")
         ELSE IF ~validateTaprootAddress(flow.args.changeAddress).valid
         THEN FlowThrow(flow, "Invalid change address", "none")
         ELSE IF ~validateFeeRate(flow.args.feeRate).valid
         THEN FlowThrow(flow, validateFeeRate(flow.args.feeRate).error, "none")
         ELSE [flow EXCEPT !.at = "prepare"]
    /\ AssemblerUnchanged

\* lines 67-71: await prepareInscriptionData(...)
PrepareData ==
    /\ flow.op = BuildOp
    /\ flow.at = "prepare"
    /\ flow' = [flow EXCEPT !.at = "getUtxos"]
    /\ AssemblerUnchanged

\* getUtxosForPayment, lines 134-136: the DataSourceManager is asked when
\* there is one
CallDataSource ==
    /\ flow.op = BuildOp
    /\ flow.at = "getUtxos"
    /\ flow' = IF flow.args.hasDataSource
               THEN Issue(flow, "dataSourceManager.getUtxos", <<>>,
                          "awaitDataSource")
               ELSE [flow EXCEPT !.at = "fetch"]
    /\ AssemblerUnchanged

\* lines 136-152: the mapped UTXOs are returned; an error is logged and the
\* function goes on to the fallback
SettleDataSource ==
    /\ flow.op = BuildOp
    /\ flow.at = "awaitDataSource"
    /\ Pending
    /\ \/ \E utxos \in DataSourceUtxoLists :
            flow' = [Settle(flow, "ok", "none") EXCEPT !.utxos = <<utxos>>,
                                                       !.at = "checkUtxos"]
       \/ \E e \in DataSourceErrors :
            flow' = [ConsoleError(Settle(flow, "failed", e), e)
                        EXCEPT !.at = "fetch"]
    /\ AssemblerUnchanged

\* lines 154-162: the request to mempool.space
CallFetch ==
    /\ flow.op = BuildOp
    /\ flow.at = "fetch"
    /\ flow' = Issue(flow, "fetch", <<>>, "awaitFetch")
    /\ AssemblerUnchanged

\* lines 162-183: a rejected request and a response that is not ok are both
\* caught, logged and replaced by one fixed message
SettleFetch ==
    /\ flow.op = BuildOp
    /\ flow.at = "awaitFetch"
    /\ Pending
    /\ \/ \E utxos \in MempoolUtxoLists :
            flow' = [Settle(flow, "ok", "none") EXCEPT !.utxos = <<utxos>>,
                                                       !.at = "checkUtxos"]
       \/ \E e \in FetchErrors :
            flow' = FlowThrow(ConsoleError(Settle(flow, "failed", e), e),
                              "Failed to fetch UTXOs for address", "none")
    /\ AssemblerUnchanged

\* lines 79-102: the check for an empty list, then the call of
\* buildInscriptionPSBT with the UTXOs that were fetched
StartAssembler ==
    /\ flow.op = BuildOp
    /\ flow.at = "checkUtxos"
    /\ IF Len(flow.utxos[1]) = 0
       THEN /\ flow' = FlowThrow(flow, "No UTXOs found for address", "none")
            /\ UNCHANGED <<params, pc>>
       ELSE /\ flow' = [flow EXCEPT !.at = "assembling"]
            /\ params' = [recipientAddress |-> flow.args.recipientAddress,
                          feeRate |-> flow.args.feeRate,
                          contentLength |-> flow.args.contentLength,
                          inscriptionData |-> DefaultData,
                          paymentPublicKeyLength |->
                              flow.args.paymentPublicKeyLength,
                          paymentUtxos |-> flow.utxos[1],
                          changeAddress |-> flow.args.changeAddress,
                          coinSelectionStrategy |-> Undefined,
                          minChangeThreshold |-> <<>>]
            /\ pc' = "validate"
    /\ UNCHANGED <<inscriptionScript, estimatedFee, selectedUtxos, change,
                   totalInputValue, iterations, selectorCalls, psbt, result,
                   error, call>>

\* psbt.extractTransaction(true) is code of bitcoinjs-lib: it returns the
\* transaction or throws (as it does for inputs that are not finalized)
ExtractOutcomes == {"extracted", "Not finalized"}

\* lines 94-114: the assembler's error propagates; its PSBT is extracted
FinishBuild ==
    /\ flow.op = BuildOp
    /\ flow.at = "assembling"
    /\ \/ /\ pc = "failed"
          /\ flow' = FlowThrow(flow, error, "none")
       \/ /\ pc = "done"
          /\ \E outcome \in ExtractOutcomes :
               flow' = IF outcome = "extracted"
                       THEN [flow EXCEPT !.at = "done", !.result = result]
                       ELSE FlowThrow(flow, outcome, "none")
    /\ AssemblerUnchanged

\* lines 75-96 of handlePayAndSign
PayGuards ==
    /\ flow.op = PayOp
    /\ flow.at = "guards"
    /\ flow' =
         IF ~flow.args.walletConnected
         THEN FlowThrow(flow, "Wallet not connected", "none")
         ELSE IF ~flow.args.hasPublicKeys
         THEN FlowThrow(flow, "Public keys not available from wallet", "none")
         ELSE IF ~flow.args.hasFundingInfo
         THEN FlowThrow(flow, "Funding information not available", "none")
         ELSE [flow EXCEPT !.at = "createPsbt"]
    /\ AssemblerUnchanged

\* lines 101-109 of handlePayAndSign
CallCreatePsbt ==
    /\ flow.op = PayOp
    /\ flow.at = "createPsbt"
    /\ flow' = Issue(flow, "createSpecialSatsPsbt", <<>>, "awaitCreatePsbt")
    /\ AssemblerUnchanged

\* lines 101-114 and the catch of lines 155-161
SettleCreatePsbt ==
    /\ flow.op = PayOp
    /\ flow.at = "awaitCreatePsbt"
    /\ Pending
    /\ \/ flow' = [Settle(flow, "ok", "none") EXCEPT !.at = "sign"]
       \/ \E e \in CreatePsbtErrors :
            flow' = FlowThrow(Settle(flow, "failed", e), e, e)
    /\ AssemblerUnchanged

\* lines 194-197 of signAndBroadcastInscription, line 118 of handlePayAndSign
CallSigner ==
    /\ flow.op \in {SignOp, PayOp}
    /\ flow.at = "sign"
    /\ flow' = Issue(flow, "signPsbt",
                     <<IF flow.op = SignOp THEN flow.args.psbt
                       ELSE UnsignedPsbt>>,
                     "awaitSigner")
    /\ AssemblerUnchanged

\* lines 197-218 of signAndBroadcastInscription, lines 118-146 of
\* handlePayAndSign: a rejection of the signer ends the flow with the
\* signer's error; a result is turned into the transaction to broadcast
SettleSigner ==
    /\ flow.op \in {SignOp, PayOp}
    /\ flow.at = "awaitSigner"
    /\ Pending
    /\ \/ \E e \in SignerErrors :
            flow' = FlowThrow(Settle(flow, "failed", e), e, e)
       \/ \E signedResult \in SignerResults :
            LET final == IF flow.op = PayOp THEN rawTxHexOf(signedResult)
                         ELSE finalTxOf(signedResult)
                settled == Settle(flow, "ok", "none")
            IN  flow' = IF final.ok
                        THEN [settled EXCEPT !.finalTx = <<final.tx>>,
                                             !.at = "broadcast"]
                        ELSE FlowThrow(settled, final.error, "none")
    /\ AssemblerUnchanged

\* line 221 of signAndBroadcastInscription, line 151 of handlePayAndSign
CallBroadcast ==
    /\ flow.op \in {SignOp, PayOp}
    /\ flow.at = "broadcast"
    /\ flow' = Issue(flow, "broadcastRawTxViaMempool",
                     <<BroadcastPayload(flow)>>, "awaitBroadcast")
    /\ AssemblerUnchanged

\* lines 221-223 of signAndBroadcastInscription, lines 151-161 of
\* handlePayAndSign: the txid is returned, or the error broadcastRawTxViaMempool
\* throws goes to the caller
SettleBroadcast ==
    /\ flow.op \in {SignOp, PayOp}
    /\ flow.at = "awaitBroadcast"
    /\ Pending
    /\ \/ flow' = [Settle(flow, "ok", "none") EXCEPT !.result = <<"txid">>,
                                                     !.at = "done"]
       \/ \E e \in BroadcastErrors :
            flow' = FlowThrow(Settle(flow, "failed", e), e, e)
    /\ AssemblerUnchanged

NextFlow ==
    \/ BuildValidate
    \/ PrepareData
    \/ CallDataSource
    \/ SettleDataSource
    \/ CallFetch
    \/ SettleFetch
    \/ StartAssembler
    \/ FinishBuild
    \/ PayGuards
    \/ CallCreatePsbt
    \/ SettleCreatePsbt
    \/ CallSigner
    \/ SettleSigner
    \/ CallBroadcast
    \/ SettleBroadcast
    \/ Next

SpecFlow == InitFlow /\ [][NextFlow]_vars

(***************************************************************************)
(* Properties                                                              *)
(***************************************************************************)
Returned == result # <<>>

\* C1: a returned transaction's inputs cover the inscription output plus the
\* final fee estimate; a call that ends for lack of funds returns nothing
C1_InputsCoverOutputAndFee ==
    /\ Returned =>
          SumValues(psbt.inputs) >= Max(546, params.contentLength) + estimatedFee
    /\ error \in {"Insufficient funds", "Insufficient funds."} =>
          pc = "failed" /\ ~Returned

C1_Witness ==
    /\ pc = "done"
    /\ Returned
    /\ Len(psbt.inputs) = 2
    /\ SumValues(psbt.inputs) - psbt.inputs[2].value
          < Max(546, params.contentLength) + estimatedFee

\* C2: in a returned transaction the final fee is the estimate for the number
\* of inputs added and the number of outputs emitted
C2_FeeMatchesActualCounts ==
    Returned =>
       estimatedFee = estimateFeeForSelection(Len(psbt.inputs),
                                              Len(psbt.outputs), params.feeRate,
                                              TRUE)

\* C3: no output of a returned transaction is below 546 sats, and a change
\* output is never below the minimum-change threshold in force
C3_DustRule ==
    Returned =>
       /\ \A i \in 1..Len(psbt.outputs) : psbt.outputs[i].value >= 546
       /\ Len(psbt.outputs) = 2 =>
             psbt.outputs[2].value >= minChangeThreshold(params)

\* C4: with finalChange = selected total - inscription output - final fee, a
\* change output of exactly finalChange is emitted iff finalChange exceeds the
\* threshold; otherwise there is one output and 0 <= finalChange <= threshold
C4_ChangeOutputRule ==
    Returned =>
       LET threshold == IF params.minChangeThreshold \in {<<>>, <<0>>}
                        THEN 546 ELSE params.minChangeThreshold[1]
           finalChange == SumValues(psbt.inputs)
                             - Max(546, params.contentLength) - estimatedFee
       IN  /\ Len(psbt.outputs) \in {1, 2}
           /\ Len(psbt.outputs) = 2 <=> finalChange > threshold
           /\ Len(psbt.outputs) = 2 =>
                 psbt.outputs[2] = [address |-> params.changeAddress,
                                    value |-> finalChange]
           /\ Len(psbt.outputs) = 1 =>
                 finalChange >= 0 /\ finalChange <= threshold

\* a transaction whose change equals the threshold, so it is absorbed
C4_Witness ==
    /\ Returned
    /\ Len(psbt.outputs) = 1
    /\ params.minChangeThreshold = <<1000>>
    /\ SumValues(psbt.inputs) - Max(546, params.contentLength) - estimatedFee
          = 1000

\* C5: on a non-empty list of positive values that covers target + fee,
\* selectCoins returns a non-empty selection with totalValue the sum of the
\* selected values and change = totalValue - target - fee >= 0
C5_SelectionCovers ==
    (/\ call.fn = "selectCoins"
     /\ call.out # <<>>
     /\ Len(call.utxos) > 0
     /\ \A i \in 1..Len(call.utxos) : call.utxos[i].value > 0
     /\ SumValues(call.utxos) >= call.targetAmount + call.estimatedFee)
    => LET out == call.out[1]
       IN  /\ out.ok
           /\ Len(out.selected) > 0
           /\ out.totalValue = SumValues(out.selected)
           /\ out.change = out.totalValue - call.targetAmount - call.estimatedFee
           /\ out.change >= 0

\* a selection that had to take more than one UTXO and leaves change
C5_Witness ==
    /\ call.fn = "selectCoins"
    /\ call.out # <<>>
    /\ call.out[1].ok
    /\ Len(call.out[1].selected) = 2
    /\ call.out[1].change > 0

\* C6 as stated: whenever the UTXOs, the empty list included, sum to less
\* than target + fee, selectCoins fails with the insufficient-funds error
C6_InsufficientAlways ==
    (/\ call.fn = "selectCoins"
     /\ call.out # <<>>
     /\ SumValues(call.utxos) < call.targetAmount + call.estimatedFee)
    => /\ ~call.out[1].ok
       /\ call.out[1].error.kind = "Insufficient funds"

\* C6 amended: a non-empty list that sums to less than target + fee makes
\* selectCoins fail with the insufficient-funds error, carrying target + fee
\* and the sum of all UTXOs; the empty list makes it fail with the no-UTXOs
\* error; in neither case is a selection returned
C6_InsufficientNonEmpty ==
    (/\ call.fn = "selectCoins"
     /\ call.out # <<>>
     /\ SumValues(call.utxos) < call.targetAmount + call.estimatedFee)
    => /\ ~call.out[1].ok
       /\ Len(call.utxos) > 0 =>
             call.out[1].error =
                [kind |-> "Insufficient funds",
                 needed |-> call.targetAmount + call.estimatedFee,
                 have |-> SumValues(call.utxos)]
       /\ Len(call.utxos) = 0 =>
             call.out[1].error.kind = "No UTXOs available"

C6_Witness ==
    /\ call.fn = "selectCoins"
    /\ call.out # <<>>
    /\ Len(call.utxos) = 2
    /\ ~call.out[1].ok
    /\ call.out[1].error.kind = "Insufficient funds"

\* C7: the first output of a returned transaction pays the recipient
\* max(546, content.length), which is also the target handed to the selector
C7_InscriptionOutput ==
    /\ Returned =>
          psbt.outputs[1] =
             [address |-> params.recipientAddress,
              value |-> IF params.contentLength > 546
                        THEN params.contentLength ELSE 546]
    /\ (pc # "idle" /\ call.fn = "selectCoins") =>
          call.targetAmount = IF params.contentLength > 546
                              THEN params.contentLength ELSE 546

C7_Witness ==
    /\ Returned
    /\ params.contentLength = 600
    /\ psbt.outputs[1].value = 600

\* C8: when a validator rejects the parameters the call fails with the reason
\* of the first validator that fails, and the encoder, the selector and the
\* construction of the transaction never run
MalformedUtxoAt(i) ==
    \/ ~params.paymentUtxos[i].txidOk
    \/ params.paymentUtxos[i].vout < 0
    \/ params.paymentUtxos[i].value <= 0

InvalidParams ==
    \/ params.recipientAddress # "p2tr"
    \/ params.feeRate.num <= 0
    \/ params.feeRate.num > 1000 * params.feeRate.den
    \/ params.contentLength = 0
    \/ params.contentLength > 409600
    \/ params.paymentPublicKeyLength \notin {32, 33, 65}
    \/ \E i \in 1..Len(params.paymentUtxos) : MalformedUtxoAt(i)

ExpectedReasons ==
    IF params.recipientAddress = "garbage" THEN {"Invalid Bitcoin address"}
    ELSE IF params.recipientAddress # "p2tr"
    THEN {"Address must be a taproot (P2TR) address"}
    ELSE IF params.feeRate.num <= 0 THEN {"Fee rate must be greater than 0"}
    ELSE IF params.feeRate.num > 1000 * params.feeRate.den
    THEN {"Fee rate seems unusually high (>1000 sats/vB). Please verify."}
    ELSE IF params.contentLength = 0 THEN {"Inscription content cannot be empty"}
    ELSE IF params.contentLength > 409600 THEN {"Inscription content too large"}
    ELSE IF params.paymentPublicKeyLength \notin {32, 33, 65}
    THEN {"Invalid public key length"}
    ELSE {"Invalid transaction ID format", "Invalid output index",
          "Invalid UTXO value"}

C8_ValidationGates ==
    (pc \notin {"idle", "validate"} /\ InvalidParams) =>
       /\ pc = "failed"
       /\ error \in ExpectedReasons
       /\ inscriptionScript = <<>>
       /\ selectorCalls = 0
       /\ call = NoCall
       /\ psbt = NoPsbt
       /\ ~Returned

\* an oversized content with everything else acceptable
C8_Witness ==
    /\ pc = "failed"
    /\ params.recipientAddress = "p2tr"
    /\ params.contentLength = 500000
    /\ Len(params.paymentUtxos) > 0
    /\ error = "Inscription content too large"

\* C9: a step of the assembler leaves a stage only for the next stage in the
\* order Validating, Encoding, FeeConverging, Building, Done, or for Failed;
\* no step is taken from Done or Failed, and a step into Failed returns nothing
StageRank(stage) ==
    CASE stage = "Validating"    -> 1
      [] stage = "Encoding"      -> 2
      [] stage = "FeeConverging" -> 3
      [] stage = "Building"      -> 4
      [] stage = "Done"          -> 5
      [] OTHER                   -> 0

C9_StageOrder ==
    [][ /\ StageOf(pc) \notin {"Done", "Failed"}
        /\ \/ StageOf(pc') = "Failed"
           \/ StageOf(pc') = StageOf(pc)
           \/ StageRank(StageOf(pc')) = StageRank(StageOf(pc)) + 1
        /\ StageOf(pc') = "Failed" => result' = <<>> /\ error' # Undefined
        /\ StageOf(pc') = "Done" => result' # <<>> /\ error' = Undefined
      ]_vars

C9_Witness ==
    /\ pc = "done"
    /\ inscriptionScript # <<>>
    /\ selectorCalls >= 1
    /\ Len(psbt.inputs) >= 1
    /\ Len(psbt.outputs) = 2

\* C10: the selector runs at most 5 times; after each selection the fee is
\* the estimate for the selected input count and 1 output when the selection's
\* change is <= the threshold, 2 otherwise; every call ends in Done or Failed
C10_AfterSelection ==
    /\ iterations <= 5
    /\ selectorCalls <= 5
    /\ (pc = "check" \/ (pc = "loop" /\ iterations > 0)) =>
          /\ call.out[1].ok
          /\ selectedUtxos = call.out[1].selected
          /\ estimatedFee =
                estimateFeeForSelection(
                   Len(call.out[1].selected),
                   IF call.out[1].change <= minChangeThreshold(params)
                   THEN 1 ELSE 2,
                   params.feeRate, TRUE)

C10_BoundedLoopTerminates ==
    /\ []C10_AfterSelection
    /\ <>(pc \in {"done", "failed"})

C10_Witness ==
    /\ pc = "check"
    /\ iterations = 1
    /\ Len(selectedUtxos) = 2
    /\ call.out[1].change <= minChangeThreshold(params)


\* the values of a sequence of UTXOs, in order
Values(utxos) == [i \in 1..Len(utxos) |-> utxos[i].value]

\* C11: largest-first on UTXOs of 500, 1000 and 2000 sats, in whatever order
\* they are given, with target plus fee 2500, selects the 2000 and then the
\* 1000, with total 3000 and change 500
C11_LargestFirstExample ==
    ( /\ pc = "idle"
      /\ call.fn = "selectCoins"
      /\ call.out # <<>>
      /\ call.strategy = "largest-first"
      /\ Len(call.utxos) = 3
      /\ { call.utxos[i].value : i \in 1..3 } = {500, 1000, 2000}
      /\ call.targetAmount + call.estimatedFee = 2500 )
    => /\ call.out[1].ok
       /\ Values(call.out[1].selected) = <<2000, 1000>>
       /\ call.out[1].totalValue = 3000
       /\ call.out[1].change = 500

C11_Witness ==
    /\ pc = "idle"
    /\ call.fn = "selectCoins"
    /\ call.out # <<>>
    /\ call.strategy = "largest-first"
    /\ Values(call.utxos) = <<500, 1000, 2000>>
    /\ call.targetAmount + call.estimatedFee = 2500
    /\ call.out[1].ok
    /\ Values(call.out[1].selected) = <<2000, 1000>>


\* C12: a call with 5 bytes of content, fee rate 10, one valid UTXO of 100000
\* sats with witness data, the default minimum-change threshold and valid
\* taproot addresses does not fail, takes at most 5 iterations, and returns a
\* transaction whose fee is the estimate for 1 input and 2 outputs at rate 10
\* (10 + 57 + 2 * 43 vbytes), with an inscription output of 546 sats and a
\* change output of 100000 - 546 - fee sats
EndToEndParams ==
    /\ pc # "idle"
    /\ params.contentLength = 5
    /\ params.feeRate = Rate(10, 1)
    /\ Values(params.paymentUtxos) = <<100000>>
    /\ validateUtxo(params.paymentUtxos[1]).valid
    /\ params.paymentUtxos[1].hasWitness
    /\ params.minChangeThreshold = <<>>
    /\ params.recipientAddress = "p2tr"
    /\ params.changeAddress = "p2tr"
    /\ validatePublicKey(params.paymentPublicKeyLength).valid

C12_EndToEnd ==
    EndToEndParams =>
       /\ pc # "failed"
       /\ iterations <= 5
       /\ pc = "done" =>
             /\ Returned
             /\ estimatedFee = (10 + 57 + 2 * 43) * 10
             /\ Len(psbt.inputs) = 1
             /\ Len(psbt.outputs) = 2
             /\ psbt.outputs[1] = [address |-> "p2tr", value |-> 546]
             /\ psbt.outputs[2] =
                   [address |-> "p2tr", value |-> 100000 - 546 - 1530]

C12_Witness ==
    /\ EndToEndParams
    /\ pc = "done"
    /\ Returned
    /\ estimatedFee = 1530
    /\ result[1].outputs[2].value = 97924


\* r1 <= r2 for rationals with positive denominators
RateLeq(r1, r2) == r1.num * r2.den <= r2.num * r1.den

\* f is the least integer that is at least n / d
IsCeilOf(f, n, d) == f * d >= n /\ (f - 1) * d < n

\* C13: with the input count, the output count and the witness flag fixed,
\* the fee is ceil(vbytes * feeRate) with vbytes = 10 + 57 per witness input
\* (148 per legacy input) + 43 per output, and a fee rate that is not lower
\* gives a fee that is not lower
C13_FeeMonotoneInRate ==
    (call.fn = "estimateFeeForSelection" /\ call.out # <<>>) =>
       LET vbytes == 10
                     + (IF call.hasWitness THEN 57 ELSE 148) * call.inputCount
                     + 43 * call.outputCount
       IN  /\ \A k \in 1..2 :
                 IsCeilOf(call.out[k], vbytes * call.feeRates[k].num,
                          call.feeRates[k].den)
           /\ RateLeq(call.feeRates[1], call.feeRates[2]) =>
                 call.out[1] <= call.out[2]

C13_Witness ==
    /\ call.fn = "estimateFeeForSelection"
    /\ call.out # <<>>
    /\ ~call.hasWitness
    /\ call.inputCount = 1
    /\ call.outputCount = 1
    /\ call.feeRates = <<Rate(3, 4), Rate(3, 2)>>
    /\ call.out = <<151, 302>>


\* C14: for every content the validator accepts (1 to 409600 bytes), the
\* length prefix the envelope writes before the content equals the number of
\* content bytes that follow it, so that a parser recovers the content
C14_LengthPrefixDelimitsContent ==
    inscriptionScript # <<>> =>
       /\ validateInscriptionContent(params.contentLength).valid
       /\ inscriptionScript[1].contentBytes = params.contentLength
       /\ inscriptionScript[1].lengthPrefix = inscriptionScript[1].contentBytes


MissingWitnessData == "Non-witness UTXOs require full transaction data"

\* C16: when a UTXO the selector chose has no witness data the call fails
\* with the missing-witness error and returns no transaction; the call fails
\* that way only for a chosen UTXO, so a UTXO that was supplied but not
\* chosen may lack witness data
C16_SelectedNeedWitness ==
    /\ ( /\ psbt.created
         /\ pc \in {"outputs", "done", "failed"}
         /\ \E i \in 1..Len(selectedUtxos) : ~selectedUtxos[i].hasWitness )
       => /\ pc = "failed"
          /\ error = MissingWitnessData
          /\ ~Returned
          /\ psbt.outputs = <<>>
    /\ error = MissingWitnessData =>
          \E i \in 1..Len(selectedUtxos) : ~selectedUtxos[i].hasWitness
    /\ Returned => \A i \in 1..Len(psbt.inputs) : psbt.inputs[i].hasWitness

C16_Witness ==
    /\ pc = "failed"
    /\ error = MissingWitnessData
    /\ ~Returned
    /\ Len(params.paymentUtxos) = 2
    /\ Len(selectedUtxos) = 1
    /\ ~selectedUtxos[1].hasWitness


\* C17: selectCoins called with no UTXOs fails with the no-UTXOs-available
\* error whatever its other arguments; buildInscriptionPSBT called with no
\* payment UTXOs never calls the selector, returns nothing and, when its
\* parameters are otherwise valid, fails with its own no-UTXOs error
C17_EmptyUtxoSet ==
    /\ ( /\ pc = "idle"
         /\ call.fn = "selectCoins"
         /\ call.out # <<>>
         /\ call.utxos = <<>> )
       => /\ ~call.out[1].ok
          /\ call.out[1].error.kind = "No UTXOs available"
    /\ (pc # "idle" /\ params.paymentUtxos = <<>>)
       => /\ selectorCalls = 0
          /\ call = NoCall
          /\ ~Returned
          /\ pc \in {"validate", "encode", "failed"}
          /\ (pc = "failed" /\ ~InvalidParams) =>
                error = "No payment UTXOs provided"

\* both entry points have failed on an empty set: this one is the assembler
C17_Witness ==
    /\ pc = "failed"
    /\ params.paymentUtxos = <<>>
    /\ ~InvalidParams
    /\ error = "No payment UTXOs provided"
    /\ inscriptionScript # <<>>
    /\ selectorCalls = 0


FeeRateTooLow == "Fee rate must be greater than 0"
FeeRateTooHigh ==
    "Fee rate seems unusually high (>1000 sats/vB). Please verify."

\* C18: the fee rate is rejected exactly when it is <= 0 or > 1000 (1 and
\* 1000 pass, 0 and 1001 fail), and no fee is estimated and no coin selected
\* with a fee rate outside (0, 1000]
C18_FeeRateGate ==
    /\ (pc \notin {"idle", "validate"} /\ params.recipientAddress = "p2tr") =>
          /\ error = FeeRateTooLow <=> params.feeRate.num <= 0
          /\ error = FeeRateTooHigh <=>
                params.feeRate.num > 1000 * params.feeRate.den
          /\ params.feeRate \in {Rate(1, 1), Rate(1000, 1)} =>
                error \notin {FeeRateTooLow, FeeRateTooHigh}
          /\ params.feeRate \in {Rate(0, 1), Rate(1001, 1)} =>
                error \in {FeeRateTooLow, FeeRateTooHigh}
    /\ ( \/ pc \in {"encode", "loop", "check", "inputs", "outputs", "done"}
         \/ estimatedFee # 0
         \/ selectorCalls > 0 )
       => /\ params.feeRate.num > 0
          /\ params.feeRate.num <= 1000 * params.feeRate.den

\* a rate of exactly 1000 passes and the fee is estimated with it
C18_Witness ==
    /\ params.feeRate = Rate(1000, 1)
    /\ pc = "loop"
    /\ Len(params.paymentUtxos) = 1
    /\ estimatedFee = 153000


\* C19: in buildInscriptionTransaction and signAndBroadcastInscription a
\* failed call of a collaborator (UTXO lookup, signer, broadcaster) ends the
\* operation at once in a failure that carries the collaborator's error: no
\* later external call is made and the assembler is not started
C19_CollaboratorErrorsReported ==
    flow.op \in {BuildOp, SignOp} =>
       \A i \in 1..Len(flow.calls) :
          flow.calls[i].outcome = "failed" =>
             /\ i = Len(flow.calls)
             /\ pc = "idle"
             /\ flow.at = "failed"
             /\ flow.error # <<>>
             /\ flow.error[1].cause = flow.calls[i].error

UtxoSources == {"dataSourceManager.getUtxos", "fetch"}

\* C20: every external call is made at most once in a flow and only after
\* the call before it has settled; the assembler (and with it coin selection)
\* runs only after a UTXO lookup has returned, on the UTXOs it returned; what
\* is broadcast is what an earlier, successful call of the signer returned
\* (in signAndBroadcastInscription, after it was turned into a final
\* transaction), never the unsigned PSBT
C20_SequentialAtMostOnce ==
    flow.op # "none" =>
       /\ \A i, j \in 1..Len(flow.calls) :
             flow.calls[i].to = flow.calls[j].to => i = j
       /\ \A i \in 1..(Len(flow.calls) - 1) :
             flow.calls[i].outcome # "pending"
       /\ (pc # "idle" \/ selectorCalls > 0) =>
             /\ flow.op = BuildOp
             /\ flow.calls # <<>>
             /\ LastCall.to \in UtxoSources
             /\ LastCall.outcome = "ok"
             /\ flow.utxos # <<>>
             /\ params.paymentUtxos = flow.utxos[1]
       /\ \A i \in 1..Len(flow.calls) :
             flow.calls[i].to = "broadcastRawTxViaMempool" =>
                /\ \E j \in 1..(i - 1) :
                      /\ flow.calls[j].to = "signPsbt"
                      /\ flow.calls[j].outcome = "ok"
                /\ flow.calls[i].payload = flow.finalTx
                /\ flow.calls[i].payload[1].by = "signer"
                /\ flow.calls[i].payload[1] # UnsignedPsbt
                /\ flow.op = SignOp =>
                      flow.calls[i].payload[1].kind = "final transaction"

\* signAndBroadcastInscription has signed, then broadcast, and returned
C20_Witness ==
    /\ flow.op = SignOp
    /\ flow.at = "done"
    /\ flow.result = <<"txid">>
    /\ Len(flow.calls) = 2
    /\ flow.calls[1].to = "signPsbt"
    /\ flow.calls[2].to = "broadcastRawTxViaMempool"
    /\ flow.calls[2].outcome = "ok"


\* u comes no later than v in the order of the strategy
OrderedBy(strategy, u, v) ==
    IF strategy = "smallest-first" THEN u.value <= v.value
    ELSE u.value >= v.value

\* C21: a successful selectCoins returns the shortest prefix of the input
\* UTXOs in the order of the strategy (descending value, ascending for
\* smallest-first) whose total reaches targetAmount + estimatedFee: the
\* selection is ordered, nothing left out comes before its last element,
\* its total reaches the amount and does not without its last element,
\* and no UTXO is selected twice
C21_FirstFit ==
    (pc = "idle" /\ call.fn = "selectCoins" /\ call.out # <<>>
     /\ call.out[1].ok) =>
       LET sel == call.out[1].selected
           n == Len(sel)
           needed == call.targetAmount + call.estimatedFee
       IN  /\ n > 0
           /\ \A i \in 1..n : \E k \in 1..Len(call.utxos) : call.utxos[k] = sel[i]
           /\ \A i, j \in 1..n : sel[i].vout = sel[j].vout => i = j
           /\ \A i, j \in 1..n : i < j => OrderedBy(call.strategy, sel[i], sel[j])
           /\ \A k \in 1..Len(call.utxos) :
                 (\A i \in 1..n : sel[i].vout # call.utxos[k].vout) =>
                    OrderedBy(call.strategy, sel[n], call.utxos[k])
           /\ SumValues(sel) >= needed
           /\ SumValues(SubSeq(sel, 1, n - 1)) < needed
           /\ call.out[1].totalValue = SumValues(sel)

\* smallest-first takes two of three UTXOs given in another order
C21_Witness ==
    /\ pc = "idle"
    /\ call.fn = "selectCoins"
    /\ call.out # <<>>
    /\ call.strategy = "smallest-first"
    /\ Values(call.utxos) = <<2000, 500, 1000>>
    /\ call.out[1].ok
    /\ Values(call.out[1].selected) = <<500, 1000>>

\* C22: selectCoins with 'optimal' returns what it returns with
\* 'largest-first' for the same UTXOs, target and fee: the same selection,
\* total and change, or the same error
C22_OptimalIsLargestFirst ==
    (pc = "idle" /\ call.fn = "selectCoins" /\ call.out # <<>>
     /\ call.strategy = "optimal") =>
       call.out[1] = selectCoins(call.utxos, call.targetAmount,
                                 call.estimatedFee, "largest-first")

C22_Witness ==
    /\ pc = "idle"
    /\ call.fn = "selectCoins"
    /\ call.out # <<>>
    /\ call.strategy = "optimal"
    /\ Values(call.utxos) = <<500, 2000, 1000>>
    /\ call.out[1].ok
    /\ Values(call.out[1].selected) = <<2000>>
    /\ call.out[1].change = 1454

\* the sets of positions of a list
Positions(utxos) == SUBSET (1..Len(utxos))

RECURSIVE SumAt(_, _)
SumAt(utxos, positions) ==
    IF positions = {} THEN 0
    ELSE LET i == CHOOSE i \in positions : TRUE
         IN  utxos[i].value + SumAt(utxos, positions \ {i})

\* C28: when selectCoins with 'largest-first' succeeds, no set of fewer
\* UTXOs than it selected has a total of targetAmount + estimatedFee or more
C28_FewestInputs ==
    (pc = "idle" /\ call.fn = "selectCoins" /\ call.out # <<>>
     /\ call.strategy = "largest-first" /\ call.out[1].ok) =>
       \A positions \in Positions(call.utxos) :
          Cardinality(positions) < Len(call.out[1].selected) =>
             SumAt(call.utxos, positions)
                < call.targetAmount + call.estimatedFee

\* two UTXOs are needed and taken
C28_Witness ==
    /\ pc = "idle"
    /\ call.fn = "selectCoins"
    /\ call.out # <<>>
    /\ call.strategy = "largest-first"
    /\ Values(call.utxos) = <<1000, 500, 2000>>
    /\ call.targetAmount + call.estimatedFee = 2500
    /\ call.out[1].ok
    /\ Len(call.out[1].selected) = 2


\* C23: once the final funding check is passed the change recomputed with
\* the final fee is never negative, and no call ends in the failure of the
\* negative-change branch
C23_NoNegativeChange ==
    /\ (pc \in {"inputs", "outputs", "done"} \/ psbt.created) => change >= 0
    /\ error # "Insufficient funds after fee calculation"

\* the final check is passed with a fee below the first guess, and the
\* change recomputed with it is above the change the selector returned
C23_Witness ==
    /\ pc = "outputs"
    /\ psbt.created
    /\ totalInputValue = 1245
    /\ estimatedFee = 110
    /\ call.out[1].change = 546
    /\ change = 589

\* C25: the body of the select/re-estimate loop runs exactly once in every
\* call that reaches it: the re-estimated fee is at most the first guess the
\* selection covered, the loop is left after one selection (or selectCoins
\* throws in it), and the final funding check never fails
C25_LoopRunsOnce ==
    /\ iterations <= 1
    /\ selectorCalls <= 1
    /\ pc = "loop" => iterations = 0 /\ selectorCalls = 0
    /\ pc \in {"check", "inputs", "outputs", "done"} =>
          /\ iterations = 1
          /\ selectorCalls = 1
          /\ estimatedFee <= call.estimatedFee
          /\ totalInputValue >= Max(546, params.contentLength) + estimatedFee
    /\ error # "Insufficient funds."

\* one of two UTXOs was enough, and the final fee is below the first guess
C25_Witness ==
    /\ pc = "done"
    /\ iterations = 1
    /\ Len(params.paymentUtxos) = 2
    /\ Len(selectedUtxos) = 1
    /\ estimatedFee < call.estimatedFee

\* the fee a returned transaction pays
PaidFee == SumValues(psbt.inputs) - SumValues(psbt.outputs)

C24_ChangeAddressValidated ==
    (params.changeAddress # "p2tr" /\ pc \notin {"idle", "validate"}) =>
       /\ pc = "failed"
       /\ inscriptionScript = <<>>
       /\ selectorCalls = 0
       /\ ~Returned

\* C26: with parameters that pass validation, a valid change address and
\* witness data on every supplied UTXO, the call succeeds exactly when the
\* sum of all supplied UTXOs is at least max(546, content length) plus the
\* fee estimate for all of them as inputs and 2 outputs, and fails with
\* insufficient funds otherwise
C26_SucceedsIffAllCoverFirstGuess ==
    ( /\ pc \in {"done", "failed"}
      /\ ~InvalidParams
      /\ params.changeAddress = "p2tr"
      /\ Len(params.paymentUtxos) > 0
      /\ \A i \in 1..Len(params.paymentUtxos) :
            params.paymentUtxos[i].hasWitness )
    => LET needed == Max(546, params.contentLength)
                     + estimateFeeForSelection(Len(params.paymentUtxos), 2,
                                               params.feeRate, TRUE)
       IN  /\ pc = "done" <=> SumValues(params.paymentUtxos) >= needed
           /\ pc = "done" => Returned
           /\ pc = "failed" => error = "Insufficient funds" /\ ~Returned

\* the call fails although the first UTXO alone covers the inscription
\* output and the fee for 1 input and 2 outputs
C26_Witness ==
    /\ pc = "failed"
    /\ error = "Insufficient funds"
    /\ ~InvalidParams
    /\ params.changeAddress = "p2tr"
    /\ params.feeRate = Rate(500, 1)
    /\ Values(params.paymentUtxos) = <<100000, 1245>>
    /\ \A i \in 1..2 : params.paymentUtxos[i].hasWitness
    /\ 100000 >= Max(546, params.contentLength) + (10 + 57 + 2 * 43) * 500


\* C30: selectCoins leaves its input unchanged: after any call, successful
\* or failing and for any strategy, the caller's list has the same elements
\* in the same order as before the call, and the assembler's list is the one
\* it passed to the selector
C30_InputUnchanged ==
    call.fn = "selectCoins" =>
       /\ call.callerUtxos = call.utxos
       /\ pc # "idle" => params.paymentUtxos = call.utxos

\* a call has ended whose sorted order differs from the caller's order
C30_Witness ==
    /\ call.fn = "selectCoins"
    /\ call.out # <<>>
    /\ Len(call.utxos) > 1
    /\ SortUtxos(call.utxos, call.strategy) # call.utxos
    /\ call.callerUtxos = call.utxos


\* C29: two calls that differ only in the content bytes (same length), the
\* content type or the metadata end alike, with the same inputs, the same
\* outputs and the same fee; an output holds an address and a value only,
\* an input holds the UTXO only, and the envelope is in neither
C29_DependsOnContentLengthOnly ==
    (flow.op = "secondCall" /\ pc \in {"done", "failed"}) =>
       /\ params.inscriptionData # flow.first.params.inscriptionData
       /\ [params EXCEPT !.inscriptionData = DefaultData] = flow.first.params
       /\ pc = flow.first.pc
       /\ error = flow.first.error
       /\ psbt.inputs = flow.first.psbt.inputs
       /\ psbt.outputs = flow.first.psbt.outputs
       /\ estimatedFee = flow.first.estimatedFee
       /\ result = <<>> <=> flow.first.result = <<>>
       /\ \A i \in 1..Len(psbt.outputs) :
             DOMAIN psbt.outputs[i] = {"address", "value"}
       /\ \A i \in 1..Len(psbt.inputs) :
             DOMAIN psbt.inputs[i] = DOMAIN params.paymentUtxos[1]

\* both calls returned a transaction with a change output, from envelopes
\* that differ in content type, content bytes and metadata
C29_Witness ==
    /\ flow.op = "secondCall"
    /\ pc = "done"
    /\ flow.first.pc = "done"
    /\ params.contentLength = 600
    /\ inscriptionScript[1].contentType # flow.first.inscriptionScript[1].contentType
    /\ inscriptionScript[1].content # flow.first.inscriptionScript[1].content
    /\ inscriptionScript[1].metadata # flow.first.inscriptionScript[1].metadata
    /\ Len(psbt.outputs) = 2
    /\ psbt = flow.first.psbt

====
